---- MODULE Spec2Model ----
(***************************************************************************)
(* A model of the watchdog's monitoring loop (src/watchdog.py): the        *)
(* single-threaded scheduler of monitor_loop, the health probe             *)
(* check_service_health, the local restart simple_restart, the two agent   *)
(* dispatchers invoke_agent and invoke_update_agent, and the notification  *)
(* tool send_telegram_tool.                                                *)
(*                                                                         *)
(* External collaborators (subprocesses, the agent runtime, the Telegram   *)
(* endpoint, git) are nondeterministic: every action draws their outcome   *)
(* from a small set.  log() is taken to succeed.  The clock time.time() is *)
(* taken to advance in the sleeps of the code only: a subprocess and the   *)
(* run of an agent take no time of the model.                              *)
(*                                                                         *)
(* Spec is the whole loop.  CycleSpec is the loop without services, with   *)
(* the end of every repository's last update dispatch recorded.  ProbeSpec *)
(* calls check_service_health or simple_restart once, over every service   *)
(* descriptor, a command that never returns included.  DriftSpec runs the  *)
(* drift detection twice in a row against an unchanged remote branch.      *)
(***************************************************************************)
EXTENDS Integers, Sequences, FiniteSets, TLC

VARIABLES
    CONFIG,               \* the loaded configuration (immutable after load_config)
    TELEGRAM_BOT_TOKEN,   \* "" when not configured
    TELEGRAM_CHAT_ID,     \* "" when not configured
    pc,                   \* position of monitor_loop
    svc_i,                \* index of the service the for-loop of line 595 is at
    repo_i,               \* index of the repository the for-loop of line 625 is at
    restart_counts,       \* service -> consecutive failures (line 580)
    last_update_check,    \* line 587
    now,                  \* time.time()
    loop_count,           \* line 592
    local_head,           \* repository -> revision of HEAD
    origin_ref,           \* repository -> revision of origin/<branch> (remote-tracking ref)
    ev,                   \* history: what the last step did
    streak,               \* history: service -> the ticks in a row it failed in (probe
                          \* unhealthy, no successful restart) since it was last
                          \* healthy, restarted or escalated
    inflight,             \* history: recovery actions begun and not yet returned
    dispatched            \* history, kept by CycleSpec: repository -> how the update
                          \* dispatch of its last drift check ended ("none": that
                          \* check dispatched nothing)

vars == <<CONFIG, TELEGRAM_BOT_TOKEN, TELEGRAM_CHAT_ID, pc, svc_i, repo_i,
          restart_counts, last_update_check, now, loop_count, local_head,
          origin_ref, ev, streak, inflight, dispatched>>

----------------------------------------------------------------------------
(* Bounds of the model *)

\* largest max_simple_restarts a configuration of the model sets
MaxN == 2
\* the ticks of the loop that are run
MaxTicks == 4
\* time.time() when monitor_loop starts
StartTime == 1000
\* check_interval of the model's configurations, in seconds
CheckInterval == 100

(* Program constants *)

\* asyncio.sleep(300) after a service escalation
CooldownWindow == 300
\* time.sleep(5) before the re-probe of simple_restart
SettleSecs == 5

----------------------------------------------------------------------------
(* Configurations *)

HealthKeys == {"health_check_command", "launchd_label", "systemd_unit", "port"}
DescriptorKeys == HealthKeys \cup {"restart_command", "log_file"}

\* the descriptors the loop is run with: no signal at all, the port-only
\* service of the spec's scenario (no restart method), a systemd service
LoopDescriptors == { {"log_file"}, {"port"}, {"systemd_unit", "port"} }

ServiceLists == { <<>>, <<"web">>, <<"web", "db">> }
RepositoryLists == { <<>>, <<"app">>, <<"app", "lib">> }

Range(seq) == { seq[k] : k \in 1..Len(seq) }

Revs == {"abc123", "def456"}

SigOutcomes == {"pass", "fail", "error"}
Signals == [health_check_command : SigOutcomes, launchd_label : SigOutcomes,
            systemd_unit : SigOutcomes, port : SigOutcomes]

\* the outcomes of the signals a descriptor configures (the commands of the
\* others are not run: their outcome is left at "pass")
SignalsOf(config) ==
    { sig \in Signals : \A k \in HealthKeys \ config : sig[k] = "pass" }

\* the outcomes of a signal's command when it may also never return
ProbeOutcomes == SigOutcomes \cup {"hang"}
ProbeSignals == [health_check_command : ProbeOutcomes,
                 launchd_label : ProbeOutcomes,
                 systemd_unit : ProbeOutcomes, port : ProbeOutcomes]
ProbeSignalsOf(config) ==
    { sig \in ProbeSignals : \A k \in HealthKeys \ config : sig[k] = "pass" }

\* str(e) of the exception an agent run ends with; "" when it ends normally
AgentErrors == {"", "ProcessTransport is not ready for writing",
                "unhandled errors in a TaskGroup (1 sub-exception)",
                "Command failed with exit code 1"}
HttpOutcomes == {"ok", "not_ok", "raise"}

----------------------------------------------------------------------------
(* Pure functions of the program *)

\* faulty variant: one of the two credentials is enough
TelegramConfiguredEither(token, chat) == token # "" \/ chat # ""

\* truthiness of "TELEGRAM_BOT_TOKEN and TELEGRAM_CHAT_ID"
TelegramConfigured(token, chat) == token # "" /\ chat # ""

\* faulty variant: the custom command is one more signal beside the others
check_service_health_every(config, sig) ==
    \A k \in config \cap {"health_check_command", "launchd_label",
                          "systemd_unit", "port"} : sig[k] = "pass"

\* check_service_health: config is the set of keys of the descriptor, sig the
\* outcome of each signal's command ("pass": the signal is good; "fail": it is
\* not; "error": the command could not run or timed out)
check_service_health(config, sig) ==
    IF "health_check_command" \in config
    THEN sig.health_check_command = "pass"
    ELSE IF "launchd_label" \in config /\ sig.launchd_label # "pass" THEN FALSE
    ELSE IF "systemd_unit" \in config /\ sig.systemd_unit # "pass" THEN FALSE
    ELSE IF "port" \in config /\ sig.port # "pass" THEN FALSE
    ELSE TRUE

\* the signals whose command check_service_health runs (lines 291-347): the
\* custom command alone when it is configured; else launchd, systemd and the
\* port in this order, each one only when those before it passed
SignalsRun(config, sig) ==
    IF "health_check_command" \in config THEN {"health_check_command"}
    ELSE LET l == "launchd_label" \in config
             lpass == l => sig.launchd_label = "pass"
             s == "systemd_unit" \in config /\ lpass
             spass == lpass /\ (s => sig.systemd_unit = "pass")
             p == "port" \in config /\ spass
         IN  (IF l THEN {"launchd_label"} ELSE {})
             \cup (IF s THEN {"systemd_unit"} ELSE {})
             \cup (IF p THEN {"port"} ELSE {})

\* the signals whose subprocess.run carries timeout= (line 300 only)
TimedSignals == {"health_check_command"}

\* check_service_health returns: no command it runs without a timeout hangs
\* (a command that outlasts its timeout raises TimeoutExpired, line 302)
ProbeReturns(config, sig) ==
    \A k \in SignalsRun(config, sig) \ TimedSignals : sig[k] # "hang"

\* the restart method simple_restart picks: launchd, else systemd, else the
\* custom command, else none
RestartMethod(config) ==
    IF "launchd_label" \in config THEN "launchd"
    ELSE IF "systemd_unit" \in config THEN "systemd"
    ELSE IF "restart_command" \in config THEN "custom"
    ELSE "none"

\* faulty variant: a restart command that exits 0 is taken as a success
simple_restart_trusting(config, cmd, sig) ==
    IF RestartMethod(config) = "none"
    THEN [issued |-> FALSE, slept |-> 0, ok |-> FALSE]
    ELSE [issued |-> TRUE, slept |-> 0, ok |-> cmd = "ok"]

\* simple_restart: cmd is the outcome of the restart command ("ok" or
\* "error", check=True raising), sig the signals of the re-probe
simple_restart(config, cmd, sig) ==
    IF RestartMethod(config) = "none"
    THEN [issued |-> FALSE, slept |-> 0, ok |-> FALSE]
    ELSE IF cmd # "ok"
    THEN [issued |-> TRUE, slept |-> 0, ok |-> FALSE]
    ELSE [issued |-> TRUE, slept |-> SettleSecs,
          ok |-> check_service_health(config, sig)]

\* send_telegram_tool: http is the outcome of requests.post
send_telegram_tool(token, chat, http) ==
    IF ~TelegramConfigured(token, chat)
    THEN [is_error |-> TRUE, posted |-> FALSE, raised |-> FALSE]
    ELSE [is_error |-> http # "ok", posted |-> TRUE, raised |-> FALSE]

\* the startup notice of monitor_loop (lines 540-578)
startup_notification(token, chat, http) ==
    IF TelegramConfigured(token, chat)
    THEN [posted |-> TRUE, raised |-> FALSE]
    ELSE [posted |-> FALSE, raised |-> FALSE]

\* faulty variant: the exception of the agent run is not caught
invoke_agent_uncaught(token, chat, err, http) ==
    [failed |-> err # "", posted |-> FALSE, raised |-> err # ""]

\* invoke_agent: err is str(e) of the exception the agent run raised ("" when
\* it completed), http the outcome of the fallback requests.post
invoke_agent(token, chat, err, http) ==
    IF err = ""
    THEN [failed |-> FALSE, posted |-> FALSE, raised |-> FALSE]
    ELSE [failed |-> TRUE, posted |-> TelegramConfigured(token, chat),
          raised |-> FALSE]

\* the messages that hold "ProcessTransport is not ready" or "TaskGroup"
KnownRace(err) ==
    err \in {"ProcessTransport is not ready for writing",
             "unhandled errors in a TaskGroup (1 sub-exception)"}

\* invoke_update_agent
invoke_update_agent(token, chat, err, http) ==
    IF err = ""
    THEN [failed |-> FALSE, posted |-> FALSE, raised |-> FALSE]
    ELSE IF KnownRace(err)
    THEN [failed |-> TRUE, posted |-> FALSE, raised |-> FALSE]
    ELSE [failed |-> TRUE, posted |-> TelegramConfigured(token, chat),
          raised |-> FALSE]

\* faulty variant: a healthy probe leaves the counter as it is
CountAfterHealthyKept(c) == c

\* the counter after a healthy probe (lines 598-600)
CountAfterHealthy(c) == IF c > 0 THEN 0 ELSE c

\* faulty variant: the loop never escalates
RestartLocallyAlways(c, max_simple_restarts) == TRUE

\* faulty variant: the threshold is compared with < instead of <=
RestartLocallyStrict(c, max_simple_restarts) == c < max_simple_restarts

\* faulty variant: a failed probe counts twice
CountAfterFailureTwice(c) == c + 2

\* the counter after a failed probe (line 603)
CountAfterFailure(c) == c + 1

\* faulty variant: the escalation resets the counter of every service
CountsAfterEscalationAll(counts, s) == [x \in DOMAIN counts |-> 0]

\* the counters after the escalation of service s has returned (line 616)
CountsAfterEscalation(counts, s) == [counts EXCEPT ![s] = 0]

\* restart locally (TRUE) or escalate (FALSE), from the incremented counter
\* (line 606)
RestartLocally(c, max_simple_restarts) == c <= max_simple_restarts

\* faulty variant: a repository is reported behind only after a fetch that
\* succeeded
DriftVerdictAfterFetch(path_exists, fetch, local, remote) ==
    IF ~path_exists THEN "skipped"
    ELSE IF fetch = "raise" THEN "error"
    ELSE IF fetch = "ok" /\ local # remote THEN "behind"
    ELSE "up_to_date"

\* the drift check of monitor_loop for one repository (lines 626-663):
\* path_exists, fetch in {"ok", "fail" (non-zero exit), "raise" (timeout, no
\* git)}, local and remote the stripped stdout of the two rev-parse calls
\* ("" when the call failed)
DriftVerdict(path_exists, fetch, local, remote) ==
    IF ~path_exists THEN "skipped"
    ELSE IF fetch = "raise" THEN "error"
    ELSE IF local # remote THEN "behind"
    ELSE "up_to_date"

\* check_git_updates_tool (lines 105-189): every git call runs with
\* check=True, so a failure of any of them gives is_error
check_git_updates_tool(known, path_exists, fetch, local, remote) ==
    IF ~known \/ ~path_exists THEN [is_error |-> TRUE, has_updates |-> FALSE]
    ELSE IF fetch # "ok" \/ local = "" \/ remote = ""
    THEN [is_error |-> TRUE, has_updates |-> FALSE]
    ELSE [is_error |-> FALSE, has_updates |-> local # remote]

----------------------------------------------------------------------------
(* The state machine of monitor_loop *)

\* the service maps of the model: "web" alone runs over the descriptors;
\* beside "db", a systemd service, it is the port-only service
DescriptorsBeside(sv) == IF Len(sv) = 2 THEN { {"port"} } ELSE LoopDescriptors

ServiceConfigs ==
    UNION { { [services |-> sv,
               desc |-> [s \in Range(sv) |->
                           IF s = "web" THEN w ELSE {"systemd_unit", "port"}]] :
                w \in DescriptorsBeside(sv) } : sv \in ServiceLists }

\* the repository maps of the model: the path of "app" may be missing
RepositoryConfigs ==
    { [repositories |-> rp, path_exists |-> [r \in Range(rp) |->
                                               IF r = "app" THEN e ELSE TRUE]] :
        rp \in RepositoryLists, e \in BOOLEAN }

\* the configurations of the model: at most three services and repositories
\* together, a check cycle every second tick
Configs ==
    { c \in { [services |-> sc.services, desc |-> sc.desc,
               repositories |-> rc.repositories,
               path_exists |-> rc.path_exists,
               max_simple_restarts |-> n,
               update_check_interval |-> 2 * CheckInterval] :
                sc \in ServiceConfigs, rc \in RepositoryConfigs, n \in 0..MaxN } :
        Len(c.services) + Len(c.repositories) <= 3 }

\* the credentials a configuration is run with: every combination for one
\* service and one repository at most, both set otherwise
CredentialsOf(c) ==
    IF Len(c.services) <= 1 /\ Len(c.repositories) <= 1
    THEN {"", "123:abc"} \X {"", "42"}
    ELSE { <<"123:abc", "42">> }

services == CONFIG.services
repositories == CONFIG.repositories
max_simple_restarts == CONFIG.max_simple_restarts
update_check_interval == CONFIG.update_check_interval

\* what a step leaves in ev
\* (op: the operation; who: its service or repository; ok: its verdict;
\* before: the service's counter when a probe began; posted: a notification
\* request was sent to the network; raised: an exception left the operation)
NoEv == [op |-> "load_config", who |-> "", ok |-> TRUE, before |-> 0,
         posted |-> FALSE, raised |-> FALSE, err |-> "", verdict |-> "",
         fetch |-> "", local |-> "", remote |-> ""]

Init ==
    /\ CONFIG \in Configs
    /\ \E cr \in CredentialsOf(CONFIG) :
          /\ TELEGRAM_BOT_TOKEN = cr[1]
          /\ TELEGRAM_CHAT_ID = cr[2]
    /\ pc = "start"
    /\ svc_i = 1
    /\ repo_i = 1
    /\ restart_counts = [s \in Range(CONFIG.services) |-> 0]
    /\ last_update_check = 0
    /\ now = StartTime
    /\ loop_count = 0
    /\ local_head = [r \in Range(CONFIG.repositories) |-> "abc123"]
    /\ origin_ref = [r \in Range(CONFIG.repositories) |-> "abc123"]
    /\ ev = NoEv
    /\ streak = [s \in Range(CONFIG.services) |-> 0]
    /\ inflight = {}
    /\ dispatched = [r \in Range(CONFIG.repositories) |-> "none"]

\* faulty variant: the repositories come after the first service
AfterServiceToRepositories(i) == pc' = "repos" /\ svc_i' = 1

\* the for-loop of line 595 moves on from the service at index i
AfterService(i) ==
    IF i < Len(services)
    THEN pc' = "svc" /\ svc_i' = i + 1
    ELSE pc' = "repos" /\ svc_i' = 1

\* the for-loop of line 625 moves on from the repository at index j
AfterRepository(j) ==
    IF j < Len(repositories)
    THEN pc' = "repo" /\ repo_i' = j + 1
    ELSE pc' = "sleep" /\ repo_i' = 1

\* faulty variant: the dispatch is started and not awaited
AgentNotAwaited == "cooldown"

\* where the dispatch of line 615 leaves the loop: awaiting the agent
AwaitAgent == "agent"

\* faulty variant: the loop does not sleep after an escalation
CooldownWakeAtOnce(t) == t

\* when the sleep of line 617 that begins at t ends
CooldownWake(t) == t + CooldownWindow

\* one more failed tick in a row
Longer(k) == IF k <= max_simple_restarts + 1 THEN k + 1 ELSE k

\* faulty variant: the loop is entered whatever the configuration holds
EmptyConfigurationIgnored(sv, rp) == FALSE

\* line 529: neither services nor repositories are configured
EmptyConfiguration(sv, rp) == sv = <<>> /\ rp = <<>>

\* lines 525-591: the empty configuration returns, else the startup notice
\* is sent and the loop is entered
Startup ==
    /\ pc = "start"
    /\ \E http \in HttpOutcomes :
        LET empty == EmptyConfiguration(services, repositories)
            r == startup_notification(TELEGRAM_BOT_TOKEN, TELEGRAM_CHAT_ID, http)
        IN  /\ ev' = [NoEv EXCEPT !.op = "startup",
                                  !.posted = ~empty /\ r.posted,
                                  !.raised = ~empty /\ r.raised]
            /\ pc' = IF empty THEN "done"
                     ELSE IF ~empty /\ r.raised THEN "crashed"
                     ELSE IF services # <<>> THEN "svc" ELSE "repos"
    /\ UNCHANGED <<CONFIG, dispatched, loop_count, TELEGRAM_BOT_TOKEN, TELEGRAM_CHAT_ID, svc_i, repo_i,
                   restart_counts, last_update_check, now, local_head,
                   origin_ref, streak,
                   inflight>>

\* lines 596-615: the probe of one service and the decision that follows it
ProbeService ==
    /\ pc = "svc"
    /\ \E sig \in SignalsOf(CONFIG.desc[services[svc_i]]) :
        LET s == services[svc_i]
            healthy == check_service_health(CONFIG.desc[s], sig)
            c == CountAfterFailure(restart_counts[s])
            method == RestartMethod(CONFIG.desc[s])
        IN  /\ ev' = [NoEv EXCEPT !.op = "probe", !.who = s, !.ok = healthy,
                          !.before = restart_counts[s],
                          !.verdict =
                              IF healthy THEN "healthy"
                              ELSE IF ~RestartLocally(c, max_simple_restarts)
                              THEN "escalate"
                              ELSE IF method = "none" THEN "no_restart_method"
                              ELSE "restart"]
            /\ IF healthy
               THEN /\ restart_counts' =
                          [restart_counts EXCEPT ![s] = CountAfterHealthy(@)]
                    /\ streak' = [streak EXCEPT ![s] = 0]
                    /\ AfterService(svc_i)
                    /\ UNCHANGED inflight
               ELSE /\ restart_counts' = [restart_counts EXCEPT ![s] = c]
                    /\ streak' = [streak EXCEPT ![s] = Longer(@)]
                    /\ IF RestartLocally(c, max_simple_restarts)
                       THEN IF method = "none"
                            THEN /\ AfterService(svc_i)
                                 /\ UNCHANGED inflight
                            ELSE /\ pc' = "restart"
                                 /\ inflight' = inflight \cup {<<"restart", s>>}
                                 /\ UNCHANGED svc_i
                       ELSE /\ pc' = AwaitAgent
                            /\ inflight' = inflight \cup {<<"agent", s>>}
                            /\ UNCHANGED svc_i
    /\ UNCHANGED <<CONFIG, dispatched, loop_count, TELEGRAM_BOT_TOKEN, TELEGRAM_CHAT_ID, repo_i,
                   last_update_check, now, local_head, origin_ref>>

\* lines 361-392 and 607-611: the restart command returns, the settle sleep
\* and the re-probe follow, and the loop books the result
RestartReturns ==
    /\ pc = "restart"
    /\ \E cmd \in {"ok", "error"}, sig \in SignalsOf(CONFIG.desc[services[svc_i]]) :
        LET s == services[svc_i]
            r == simple_restart(CONFIG.desc[s], cmd, sig)
        IN  /\ now' = now + r.slept
            /\ ev' = [NoEv EXCEPT !.op = "restart_return", !.who = s,
                                  !.ok = r.ok, !.verdict = cmd]
            /\ restart_counts' =
                  IF r.ok THEN [restart_counts EXCEPT ![s] = 0]
                  ELSE restart_counts
            /\ streak' = IF r.ok THEN [streak EXCEPT ![s] = 0] ELSE streak
            /\ inflight' = inflight \ {<<"restart", s>>}
            /\ AfterService(svc_i)
    /\ UNCHANGED <<CONFIG, dispatched, loop_count, TELEGRAM_BOT_TOKEN, TELEGRAM_CHAT_ID, repo_i,
                   last_update_check, local_head, origin_ref>>

\* the running agent calls the send_telegram tool (lines 66-97)
AgentSendsTelegram ==
    /\ pc \in {"agent", "update_agent"}
    /\ \E http \in HttpOutcomes :
        LET r == send_telegram_tool(TELEGRAM_BOT_TOKEN, TELEGRAM_CHAT_ID, http)
        IN  ev' = [NoEv EXCEPT !.op = "send_telegram", !.ok = ~r.is_error,
                               !.posted = r.posted, !.raised = r.raised]
    /\ UNCHANGED <<CONFIG, dispatched, loop_count, TELEGRAM_BOT_TOKEN, TELEGRAM_CHAT_ID, pc, svc_i,
                   repo_i, restart_counts, last_update_check, now, local_head,
                   origin_ref, streak,
                   inflight>>

\* the running update agent calls the check_git_updates tool (lines
\* 105-189) with a repository name; the tool fetches
AgentChecksGitUpdates ==
    /\ pc = "update_agent"
    /\ \E name \in Range(repositories) \cup {"unknown"},
          fetch \in {"ok", "fail"}, upstream \in Revs, parsed \in BOOLEAN :
        LET known == name \in Range(repositories)
            exists == known /\ CONFIG.path_exists[name]
            fetched == IF exists /\ fetch = "ok" THEN upstream
                       ELSE IF known THEN origin_ref[name] ELSE ""
            local == IF known /\ parsed THEN local_head[name] ELSE ""
            remote == IF parsed THEN fetched ELSE ""
            r == check_git_updates_tool(known, exists, fetch, local, remote)
        IN  /\ origin_ref' = IF known
                             THEN [origin_ref EXCEPT ![name] = fetched]
                             ELSE origin_ref
            /\ ev' = [NoEv EXCEPT !.op = "check_git_updates", !.who = name,
                          !.ok = ~r.is_error,
                          !.verdict = IF r.is_error THEN "error"
                                      ELSE IF r.has_updates THEN "behind"
                                      ELSE "up_to_date",
                          !.fetch = IF exists THEN fetch ELSE ""]
    /\ UNCHANGED <<CONFIG, dispatched, loop_count, TELEGRAM_BOT_TOKEN, TELEGRAM_CHAT_ID,
                   pc, svc_i, repo_i, restart_counts, last_update_check, now,
                   local_head, streak, inflight>>

\* lines 423-451 and 615-616: the agent run ends, invoke_agent returns and
\* the counter is reset
AgentReturns ==
    /\ pc = "agent"
    /\ \E err \in AgentErrors, http \in HttpOutcomes :
        LET s == services[svc_i]
            r == invoke_agent(TELEGRAM_BOT_TOKEN, TELEGRAM_CHAT_ID, err, http)
        IN  /\ ev' = [NoEv EXCEPT !.op = "agent_return", !.who = s,
                                  !.ok = ~r.failed, !.posted = r.posted,
                                  !.raised = r.raised, !.err = err]
            /\ inflight' = inflight \ {<<"agent", s>>}
            /\ IF r.raised
               THEN /\ pc' = "crashed"
                    /\ UNCHANGED <<restart_counts, streak>>
               ELSE /\ pc' = "cooldown"
                    /\ restart_counts' = CountsAfterEscalation(restart_counts, s)
                    /\ streak' = [streak EXCEPT ![s] = 0]
    /\ UNCHANGED <<CONFIG, dispatched, loop_count, TELEGRAM_BOT_TOKEN, TELEGRAM_CHAT_ID,
                   svc_i, repo_i, last_update_check, now, local_head,
                   origin_ref>>

\* line 617: the sleep after an escalation ends
CooldownEnds ==
    /\ pc = "cooldown"
    /\ now' = CooldownWake(now)
    /\ ev' = [NoEv EXCEPT !.op = "cooldown", !.who = services[svc_i]]
    /\ AfterService(svc_i)
    /\ UNCHANGED <<CONFIG, dispatched, loop_count, TELEGRAM_BOT_TOKEN, TELEGRAM_CHAT_ID, repo_i,
                   restart_counts, last_update_check, local_head, origin_ref,
                   streak, inflight>>

\* faulty variant: the timestamp is not advanced
CheckedAtStale(current_time, last) == last

\* line 623: the timestamp a check cycle that is due leaves, from the
\* current time and the timestamp before
CheckedAt(current_time, last) == current_time

\* lines 620-623: is a check cycle due
UpdateCheckDecision ==
    /\ pc = "repos"
    /\ LET due == repositories # <<>>
                  /\ (now - last_update_check) >= update_check_interval
       IN  /\ ev' = [NoEv EXCEPT !.op = "decide", !.ok = due]
           /\ IF due
              THEN /\ last_update_check' = CheckedAt(now, last_update_check)
                   /\ pc' = "repo"
              ELSE /\ pc' = "sleep"
                   /\ UNCHANGED last_update_check
    /\ repo_i' = 1
    /\ UNCHANGED <<CONFIG, dispatched, loop_count, TELEGRAM_BOT_TOKEN, TELEGRAM_CHAT_ID, svc_i,
                   restart_counts, now, local_head, origin_ref, streak, inflight>>

\* lines 626-663: the drift check of one repository; upstream is the
\* revision the remote branch is at when the fetch reaches it
CheckRepositoryStep ==
    /\ pc = "repo"
    /\ \E fetch \in {"ok", "fail", "raise"}, upstream \in Revs,
          lok \in BOOLEAN, rok \in BOOLEAN :
        LET r == repositories[repo_i]
            exists == CONFIG.path_exists[r]
            fetched == IF exists /\ fetch = "ok" THEN upstream ELSE origin_ref[r]
            local == IF lok THEN local_head[r] ELSE ""
            remote == IF rok THEN fetched ELSE ""
            verdict == DriftVerdict(exists, fetch, local, remote)
        IN  /\ origin_ref' = [origin_ref EXCEPT ![r] = fetched]
            /\ ev' = [NoEv EXCEPT !.op = "drift", !.who = r,
                          !.ok = verdict \in {"behind", "up_to_date"},
                          !.verdict = verdict,
                          !.fetch = IF exists THEN fetch ELSE "",
                          !.local = IF verdict \in {"behind", "up_to_date"}
                                    THEN local ELSE "",
                          !.remote = IF verdict \in {"behind", "up_to_date"}
                                     THEN remote ELSE ""]
            /\ IF verdict = "behind"
               THEN /\ pc' = "update_agent"
                    /\ inflight' = inflight \cup {<<"update_agent", r>>}
                    /\ UNCHANGED repo_i
               ELSE /\ AfterRepository(repo_i)
                    /\ UNCHANGED inflight
    /\ UNCHANGED <<CONFIG, loop_count, TELEGRAM_BOT_TOKEN, TELEGRAM_CHAT_ID, svc_i,
                   restart_counts, last_update_check, now, local_head, streak>>

CheckRepository == CheckRepositoryStep /\ UNCHANGED dispatched

\* lines 488-522 and 658-663: the update agent's run ends; it may have
\* pulled (HEAD moves to the tracked revision) or not
UpdateAgentReturnsStep ==
    /\ pc = "update_agent"
    /\ \E err \in AgentErrors, http \in HttpOutcomes,
          pulled \in BOOLEAN :
        LET r == repositories[repo_i]
            res == invoke_update_agent(TELEGRAM_BOT_TOKEN, TELEGRAM_CHAT_ID,
                                       err, http)
        IN  /\ local_head' = [local_head EXCEPT
                                 ![r] = IF pulled THEN origin_ref[r] ELSE @]
            /\ ev' = [NoEv EXCEPT !.op = "update_agent_return", !.who = r,
                                  !.ok = ~res.failed, !.posted = res.posted,
                                  !.raised = res.raised, !.err = err]
            /\ inflight' = inflight \ {<<"update_agent", r>>}
            /\ AfterRepository(repo_i)
    /\ UNCHANGED <<CONFIG, loop_count, TELEGRAM_BOT_TOKEN, TELEGRAM_CHAT_ID,
                   svc_i, restart_counts, last_update_check, now, origin_ref,
                   streak>>

UpdateAgentReturns == UpdateAgentReturnsStep /\ UNCHANGED dispatched

\* faulty variant: after the first tick the services are left out
TickStartsAtRepositories == "repos"

\* where 'while True' (line 593) begins a tick: at the first service, or
\* at the repositories when no service is configured
TickStarts == IF services # <<>> THEN "svc" ELSE "repos"

\* lines 665-666: the sleep between two ticks
Sleep ==
    /\ pc = "sleep"
    /\ loop_count + 1 < MaxTicks
    /\ loop_count' = loop_count + 1
    /\ now' = now + CheckInterval
    /\ ev' = [NoEv EXCEPT !.op = "sleep"]
    /\ pc' = TickStarts
    /\ svc_i' = 1
    /\ UNCHANGED <<CONFIG, dispatched, TELEGRAM_BOT_TOKEN, TELEGRAM_CHAT_ID, repo_i,
                   restart_counts, last_update_check, local_head, origin_ref,
                   streak, inflight>>

Next ==
    \/ Startup
    \/ ProbeService
    \/ RestartReturns
    \/ AgentSendsTelegram
    \/ AgentChecksGitUpdates
    \/ AgentReturns
    \/ CooldownEnds
    \/ UpdateCheckDecision
    \/ CheckRepository
    \/ UpdateAgentReturns
    \/ Sleep

Spec == Init /\ [][Next]_vars

----------------------------------------------------------------------------
(* The loop run without end, for the configurations that monitor a service. *)
(* The code reads the clock in the difference current_time -                *)
(* last_update_check only (line 621): the sleep between two ticks keeps     *)
(* that difference, capped at update_check_interval, and moves the epoch so *)
(* that every tick begins at StartTime; loop_count stops at MaxTicks.       *)
(* Every call and every sleep of the loop returns (weak fairness of each    *)
(* step of the single coroutine); the tool calls of a running agent are     *)
(* inside its run and not shown.                                            *)

Min(a, b) == IF a <= b THEN a ELSE b

LiveInit ==
    /\ Init
    /\ CONFIG.services # <<>>
    /\ Len(CONFIG.repositories) <= 1
    /\ TELEGRAM_BOT_TOKEN # ""
    /\ TELEGRAM_CHAT_ID # ""

\* lines 665-666, the clock rebased
LiveSleep ==
    /\ pc = "sleep"
    /\ loop_count' = Min(loop_count + 1, MaxTicks)
    /\ now' = StartTime
    /\ last_update_check' =
          StartTime - Min(now + CheckInterval - last_update_check,
                          update_check_interval)
    /\ ev' = [NoEv EXCEPT !.op = "sleep"]
    /\ pc' = TickStarts
    /\ svc_i' = 1
    /\ UNCHANGED <<CONFIG, dispatched, TELEGRAM_BOT_TOKEN, TELEGRAM_CHAT_ID,
                   repo_i, restart_counts, local_head, origin_ref, streak,
                   inflight>>

LiveNext ==
    \/ Startup
    \/ ProbeService
    \/ RestartReturns
    \/ AgentReturns
    \/ CooldownEnds
    \/ UpdateCheckDecision
    \/ CheckRepository
    \/ UpdateAgentReturns
    \/ LiveSleep

\* every step of the coroutine that is begun returns
LiveFairness ==
    /\ WF_vars(Startup)
    /\ WF_vars(ProbeService)
    /\ WF_vars(RestartReturns)
    /\ WF_vars(AgentReturns)
    /\ WF_vars(CooldownEnds)
    /\ WF_vars(UpdateCheckDecision)
    /\ WF_vars(CheckRepository)
    /\ WF_vars(UpdateAgentReturns)
    /\ WF_vars(LiveSleep)

LiveSpec == LiveInit /\ [][LiveNext]_vars /\ LiveFairness

----------------------------------------------------------------------------
(* The check cycles of the repositories on their own (no service is         *)
(* configured), with the end of every repository's last dispatch recorded   *)

CycleInit ==
    /\ Init
    /\ CONFIG.services = <<>>
    /\ CONFIG.repositories # <<>>

\* the drift check of lines 626-663, recording a check without dispatch
CycleCheckRepository ==
    /\ CheckRepositoryStep
    /\ dispatched' = IF pc' = "update_agent" THEN dispatched
                     ELSE [dispatched EXCEPT ![repositories[repo_i]] = "none"]

\* the return of invoke_update_agent (line 658), recording how it ended
CycleUpdateAgentReturns ==
    /\ UpdateAgentReturnsStep
    /\ dispatched' = [dispatched EXCEPT
                         ![repositories[repo_i]] =
                             IF ev'.ok THEN "completed" ELSE "failed"]

CycleNext ==
    \/ Startup
    \/ UpdateCheckDecision
    \/ CycleCheckRepository
    \/ AgentSendsTelegram
    \/ AgentChecksGitUpdates
    \/ CycleUpdateAgentReturns
    \/ Sleep

CycleSpec == CycleInit /\ [][CycleNext]_vars

----------------------------------------------------------------------------
(* Drift detection on its own: the repository "app" is checked twice in a   *)
(* row, by the loop's check or by the check_git_updates tool, while the     *)
(* remote branch stays at one revision (ev.upstream)                        *)

DriftConfigs ==
    { [services |-> <<>>, desc |-> <<>>, repositories |-> <<"app">>,
       path_exists |-> [r \in {"app"} |-> e], max_simple_restarts |-> MaxN,
       update_check_interval |-> 2 * CheckInterval] : e \in BOOLEAN }

DriftInit ==
    /\ CONFIG \in DriftConfigs
    /\ TELEGRAM_BOT_TOKEN = "123:abc"
    /\ TELEGRAM_CHAT_ID = "42"
    /\ pc = "detect"
    /\ svc_i = 1
    /\ repo_i = 1
    /\ restart_counts = <<>>
    /\ last_update_check = 0
    /\ now = StartTime
    /\ loop_count = 0
    /\ local_head \in [{"app"} -> Revs]
    /\ origin_ref \in [{"app"} -> Revs]
    /\ \E u \in Revs : ev = [op |-> "remote", upstream |-> u, run |-> 0]
    /\ streak = <<>>
    /\ inflight = {}
    /\ dispatched = [r \in {"app"} |-> "none"]

\* what a detection leaves in ev: run counts the detections, first and
\* head are the verdict of the first one and the local head before it
Detected(by, verdict) ==
    [op |-> "detect", who |-> "app", by |-> by, upstream |-> ev.upstream,
     run |-> ev.run + 1, verdict |-> verdict,
     first |-> IF ev.run = 0 THEN verdict ELSE ev.first,
     escalated |-> IF ev.run = 0 THEN by = "loop" /\ verdict = "behind"
                   ELSE ev.escalated,
     head |-> IF ev.run = 0 THEN local_head["app"] ELSE ev.head,
     tracked |-> IF ev.run = 0 THEN origin_ref["app"] ELSE ev.tracked]

\* lines 626-656: the detection of the loop, up to its verdict
LoopDetectsDrift ==
    /\ pc = "detect"
    /\ ev.run < 2
    /\ \E fetch \in {"ok", "fail", "raise"}, lok \in BOOLEAN, rok \in BOOLEAN :
        LET exists == CONFIG.path_exists["app"]
            fetched == IF exists /\ fetch = "ok" THEN ev.upstream
                       ELSE origin_ref["app"]
            local == IF lok THEN local_head["app"] ELSE ""
            remote == IF rok THEN fetched ELSE ""
        IN  /\ origin_ref' = [origin_ref EXCEPT !["app"] = fetched]
            /\ ev' = Detected("loop", DriftVerdict(exists, fetch, local, remote))
    /\ UNCHANGED <<CONFIG, dispatched, loop_count, TELEGRAM_BOT_TOKEN,
                   TELEGRAM_CHAT_ID, pc, svc_i, repo_i, restart_counts,
                   last_update_check, now, local_head, streak, inflight>>

\* lines 105-189: the detection of the check_git_updates tool
ToolDetectsDrift ==
    /\ pc = "detect"
    /\ ev.run < 2
    /\ \E fetch \in {"ok", "fail"}, parsed \in BOOLEAN :
        LET exists == CONFIG.path_exists["app"]
            fetched == IF exists /\ fetch = "ok" THEN ev.upstream
                       ELSE origin_ref["app"]
            local == IF parsed THEN local_head["app"] ELSE ""
            remote == IF parsed THEN fetched ELSE ""
            r == check_git_updates_tool(TRUE, exists, fetch, local, remote)
        IN  /\ origin_ref' = [origin_ref EXCEPT !["app"] = fetched]
            /\ ev' = Detected("tool", IF r.is_error THEN "error"
                                      ELSE IF r.has_updates THEN "behind"
                                      ELSE "up_to_date")
    /\ UNCHANGED <<CONFIG, dispatched, loop_count, TELEGRAM_BOT_TOKEN,
                   TELEGRAM_CHAT_ID, pc, svc_i, repo_i, restart_counts,
                   last_update_check, now, local_head, streak, inflight>>

DriftNext ==
    \/ LoopDetectsDrift
    \/ ToolDetectsDrift

DriftSpec == DriftInit /\ [][DriftNext]_vars

----------------------------------------------------------------------------
(* The probe and the local restart on their own: one service "web" over      *)
(* every descriptor, check_service_health or simple_restart called once     *)

ProbeConfigs ==
    { [services |-> <<"web">>, desc |-> [s \in {"web"} |-> d],
       repositories |-> <<>>, path_exists |-> <<>>,
       max_simple_restarts |-> MaxN,
       update_check_interval |-> 2 * CheckInterval] :
        d \in SUBSET DescriptorKeys }

ProbeInit ==
    /\ CONFIG \in ProbeConfigs
    /\ TELEGRAM_BOT_TOKEN = "123:abc"
    /\ TELEGRAM_CHAT_ID = "42"
    /\ pc = "call"
    /\ svc_i = 1
    /\ repo_i = 1
    /\ restart_counts = [s \in Range(CONFIG.services) |-> 0]
    /\ last_update_check = 0
    /\ now = StartTime
    /\ loop_count = 0
    /\ local_head = <<>>
    /\ origin_ref = <<>>
    /\ ev = NoEv
    /\ streak = [s \in Range(CONFIG.services) |-> 0]
    /\ inflight = {}
    /\ dispatched = [r \in Range(CONFIG.repositories) |-> "none"]

\* check_service_health(service) is called (lines 283-349); a command that
\* never returns and has no timeout leaves the call hung
CallCheckServiceHealth ==
    /\ pc = "call"
    /\ \E sig \in ProbeSignalsOf(CONFIG.desc["web"]) :
        LET config == CONFIG.desc["web"]
            returns == ProbeReturns(config, sig)
        IN  /\ ev' = [op |-> "check_service_health", who |-> "web",
                      sig |-> sig, ran |-> SignalsRun(config, sig),
                      returned |-> returns,
                      result |-> returns /\ check_service_health(config, sig)]
            /\ pc' = IF returns THEN "returned" ELSE "hung"
    /\ UNCHANGED <<CONFIG, dispatched, loop_count, TELEGRAM_BOT_TOKEN, TELEGRAM_CHAT_ID,
                   svc_i, repo_i, restart_counts, last_update_check, now,
                   local_head, origin_ref, streak, inflight>>

\* simple_restart(service) is called (lines 352-392), its commands returning
CallSimpleRestart ==
    /\ pc = "call"
    /\ \E cmd \in {"ok", "error"}, sig \in SignalsOf(CONFIG.desc["web"]) :
        LET config == CONFIG.desc["web"]
            r == simple_restart(config, cmd, sig)
        IN  /\ ev' = [op |-> "simple_restart", who |-> "web", cmd |-> cmd,
                      sig |-> sig, issued |-> r.issued, slept |-> r.slept,
                      ok |-> r.ok]
            /\ now' = now + r.slept
            /\ pc' = "returned"
    /\ UNCHANGED <<CONFIG, dispatched, loop_count, TELEGRAM_BOT_TOKEN, TELEGRAM_CHAT_ID,
                   svc_i, repo_i, restart_counts, last_update_check,
                   local_head, origin_ref, streak, inflight>>

ProbeNext ==
    \/ CallCheckServiceHealth
    \/ CallSimpleRestart

ProbeSpec == ProbeInit /\ [][ProbeNext]_vars

----------------------------------------------------------------------------
(* Properties *)

N == max_simple_restarts

Configured == TELEGRAM_BOT_TOKEN # "" /\ TELEGRAM_CHAT_ID # ""

\* C1: a service that fails on consecutive ticks, every local restart
\* failing, is restarted locally on the ticks 1..N of the streak without any
\* agent dispatch, and is dispatched to the agent on tick N+1 and on no
\* earlier tick; when that dispatch has returned, whether the agent completed
\* or failed, the service's counter is 0.
EscalationOncePerCrossing ==
    /\ (ev.op = "probe" /\ ~ev.ok) =>
          /\ streak[ev.who] \in 1..(N + 1)
          /\ streak[ev.who] <= N =>
                /\ ev.verdict \in {"restart", "no_restart_method"}
                /\ pc # "agent"
          /\ streak[ev.who] = N + 1 => ev.verdict = "escalate" /\ pc = "agent"
    /\ pc = "agent" => streak[services[svc_i]] = N + 1
    /\ ev.op = "agent_return" => restart_counts[ev.who] = 0

\* C1 witness: with N >= 1, the dispatch of tick N+1 has returned with a
\* failed agent, after the restarts of the ticks before it.
EscalationFiredAfterRestarts ==
    /\ N >= 1
    /\ loop_count >= N
    /\ ev.op = "agent_return"
    /\ ev.err # ""
    /\ restart_counts[ev.who] = 0

\* C2: when the probe of a service returns healthy, or a local restart of it
\* succeeds, the service's counter is 0 once the tick is done with it.
CounterZeroWhenHealthy ==
    (ev.op \in {"probe", "restart_return"} /\ ev.ok) =>
        restart_counts[ev.who] = 0

\* C2 witness: a healthy probe of a service whose counter was above 0.
RecoveredAfterFailures ==
    /\ ev.op = "probe"
    /\ ev.ok
    /\ ev.before > 0
    /\ restart_counts[ev.who] = 0

\* C3: once the dispatch of a service escalation has returned, the loop does
\* nothing but sleep: the only step it takes is the end of the cooldown,
\* which probes, restarts, checks and dispatches nothing and ends 300 s or
\* more after the return.
CooldownSuspendsLoop ==
    /\ [](ev.op = "agent_return" => pc = "cooldown" /\ inflight = {})
    /\ [][pc = "cooldown" =>
            /\ ev'.op = "cooldown"
            /\ now' >= now + CooldownWindow
            /\ inflight' = {}
            /\ restart_counts' = restart_counts
            /\ last_update_check' = last_update_check
            /\ origin_ref' = origin_ref]_vars

\* C3 witness: the cooldown of the first of two services has ended and the
\* second one is about to be probed, with a repository configured.
CooldownEnded ==
    /\ ev.op = "cooldown"
    /\ ev.who = "web"
    /\ pc = "svc"
    /\ services[svc_i] = "db"
    /\ repositories # <<>>
    /\ now >= StartTime + CooldownWindow

\* the recovery action the loop is waiting for at a position
InflightAt(p) ==
    IF p = "restart" THEN {<<"restart", services[svc_i]>>}
    ELSE IF p = "agent" THEN {<<"agent", services[svc_i]>>}
    ELSE IF p = "update_agent" THEN {<<"update_agent", repositories[repo_i]>>}
    ELSE {}

\* C4: at most one local restart, service dispatch or update dispatch is in
\* flight, it is the one the loop is waiting for, and a probe or drift check
\* starts only when none is: after a probe or a drift check nothing is in
\* flight but what that very step began for its own service or repository.
RecoverySerialized ==
    /\ Cardinality(inflight) <= 1
    /\ inflight = InflightAt(pc)
    /\ ev.op = "probe" => \A f \in inflight : f[2] = ev.who
    /\ ev.op = "drift" => \A f \in inflight : f[2] = ev.who

\* C4 witness: an update dispatch is in flight, begun by the drift check of
\* the second repository, with a service configured.
UpdateDispatchInFlight ==
    /\ inflight = {<<"update_agent", "lib">>}
    /\ ev.op = "drift"
    /\ services # <<>>

\* C5: the timestamp advances to the current time at the decision to check,
\* whenever the interval has elapsed, and nowhere else: not in the drift
\* checks or dispatches of the cycle, whatever their outcome, and a tick
\* that comes before the interval has elapsed again runs no check.
CheckedOncePerInterval ==
    /\ [][(pc = "repos" /\ repositories # <<>>
             /\ now - last_update_check >= update_check_interval) =>
            (last_update_check' = now /\ pc' = "repo")]_vars
    /\ [][(pc = "repos" /\ now - last_update_check < update_check_interval) =>
            (pc' = "sleep" /\ last_update_check' = last_update_check)]_vars
    /\ [][last_update_check' # last_update_check =>
            /\ pc = "repos"
            /\ last_update_check' - last_update_check >= update_check_interval]_vars
    /\ [](pc \in {"repo", "update_agent"} => last_update_check = now)

\* C5 witness: in the second check cycle of a run a drift check has failed,
\* and the timestamp is the time the cycle began.
SecondCycleCheckFailed ==
    /\ ev.op = "drift"
    /\ ev.verdict = "error"
    /\ loop_count >= 2
    /\ last_update_check = now
    /\ last_update_check >= StartTime + update_check_interval

\* C6 (the claim as stated): a drift check whose fetch failed never concludes
\* that the repository is up to date.
FetchFailureNeverUpToDate ==
    (ev.op \in {"drift", "check_git_updates"} /\ ev.fetch \in {"fail", "raise"}) =>
        ev.verdict # "up_to_date"

TransportRaceSilent ==
    (ev.op \in {"agent_return", "update_agent_return"}
       /\ ev.err = "ProcessTransport is not ready for writing") => ~ev.posted

\* C9: when the bot token or the chat id is not configured, no step sends a
\* notification request (startup notice, fallback of either dispatcher,
\* send_telegram tool), the tool reports an error, and no exception escapes.
NoCredentialsNoNetworkCall ==
    ~Configured =>
        /\ ~ev.posted
        /\ ~ev.raised
        /\ pc # "crashed"
        /\ ev.op = "send_telegram" => ~ev.ok

\* C9 witness: with the token set and the chat id missing, the agent has
\* called the send_telegram tool, which reported an error.
ToolCalledWithoutChatId ==
    /\ TELEGRAM_BOT_TOKEN # ""
    /\ TELEGRAM_CHAT_ID = ""
    /\ ev.op = "send_telegram"
    /\ ~ev.ok
    /\ ~ev.posted

\* C10 (the claim as stated): a descriptor that configures no health signal
\* is probed as unhealthy.
NoSignalProbedUnhealthy ==
    (ev.op = "probe" /\ CONFIG.desc[ev.who] \cap HealthKeys = {}) => ~ev.ok

\* the health signals a descriptor configures beside the custom command
OtherSignals(config) == config \cap {"launchd_label", "systemd_unit", "port"}

\* C11: with a custom health-check command the probe's verdict is healthy
\* exactly when that command exits 0 (an error or a timeout of it gives
\* unhealthy) and no other signal's command is run; without one the verdict
\* is healthy exactly when every signal configured among launchd, systemd
\* and port passes.
CustomCommandDecidesAlone ==
    (ev.op = "check_service_health" /\ ev.returned) =>
        IF "health_check_command" \in CONFIG.desc[ev.who]
        THEN /\ ev.result = (ev.sig.health_check_command = "pass")
             /\ ev.ran = {"health_check_command"}
        ELSE ev.result =
                (\A k \in OtherSignals(CONFIG.desc[ev.who]) : ev.sig[k] = "pass")

\* C11 witness: the custom command of a descriptor that also configures a
\* port passed while nothing listens on the port, and the probe is healthy.
CustomPassedPortClosed ==
    /\ ev.op = "check_service_health"
    /\ {"health_check_command", "port"} \subseteq CONFIG.desc[ev.who]
    /\ ev.sig.health_check_command = "pass"
    /\ ev.sig.port = "fail"
    /\ ev.result

\* C12: simple_restart reports success exactly when a restart command was
\* issued, it returned without error, and the probe after the settle sleep
\* is healthy; a descriptor without restart method gets a failure and no
\* command.
RestartSucceedsIffReprobeHealthy ==
    ev.op = "simple_restart" =>
        /\ ev.ok = (/\ ev.issued
                    /\ ev.cmd = "ok"
                    /\ check_service_health(CONFIG.desc[ev.who], ev.sig))
        /\ ev.ok => ev.slept = SettleSecs /\ now = StartTime + SettleSecs
        /\ ev.issued =
              (CONFIG.desc[ev.who] \cap
                 {"launchd_label", "systemd_unit", "restart_command"} # {})

\* C12 witness: the restart command exited 0, the service is still
\* unhealthy after the settle sleep, and the restart is reported as failed.
RestartedStillUnhealthy ==
    /\ ev.op = "simple_restart"
    /\ ev.cmd = "ok"
    /\ ev.issued
    /\ ev.slept = SettleSecs
    /\ ~ev.ok

\* C13 (the claim as stated): a probe that runs a command which never
\* returns still returns, with the verdict unhealthy.
ProbeBoundedByTimeout ==
    (ev.op = "check_service_health" /\ \E k \in ev.ran : ev.sig[k] = "hang") =>
        (ev.returned /\ ~ev.result /\ pc = "returned")

\* C14: with neither services nor repositories configured the loop returns
\* at once without error: it never enters a tick, and no probe, restart,
\* drift check, dispatch or notification request happens.
EmptyConfigurationReturns ==
    (services = <<>> /\ repositories = <<>>) =>
        /\ pc \in {"start", "done"}
        /\ ev.op \in {"load_config", "startup"}
        /\ ev.op = "startup" => pc = "done"
        /\ ~ev.posted
        /\ ~ev.raised
        /\ inflight = {}
        /\ loop_count = 0
        /\ last_update_check = 0
        /\ now = StartTime

\* C14 witness: the loop has returned for the empty configuration, with
\* the credentials of the startup notice configured.
ReturnedForEmptyConfiguration ==
    /\ services = <<>>
    /\ repositories = <<>>
    /\ Configured
    /\ pc = "done"
    /\ ev.op = "startup"

\* C15 (the claim as stated): a tick in which the check of the only
\* repository is skipped because its path does not exist leaves the
\* timestamp as it was: it is not advanced to the time of this tick.
SkippedCheckKeepsTimestamp ==
    (ev.op = "drift" /\ ev.verdict = "skipped" /\ Len(repositories) = 1) =>
        last_update_check < now

\* C16: every check cycle goes through the repositories once, in order; a
\* drift check that read both revisions dispatches the update agent exactly
\* when the local head differs from the tracked remote revision, once, and
\* when that dispatch has returned the loop moves on to the next repository
\* (no second dispatch for it in the cycle); this is so whether the
\* repository's previous dispatch completed, failed or did not happen.
FreshDispatchEveryCycle ==
    /\ [](\A o \in {"none", "completed", "failed"} :
            (/\ ev.op = "drift"
             /\ dispatched[ev.who] = o
             /\ ev.verdict \in {"behind", "up_to_date"}
             /\ ev.local # ""
             /\ ev.remote # "") =>
                ((local_head[ev.who] # origin_ref[ev.who]) <=>
                    (pc = "update_agent"
                       /\ inflight = {<<"update_agent", ev.who>>})))
    /\ [][(pc = "repos" /\ now - last_update_check >= update_check_interval) =>
            (pc' = "repo" /\ repo_i' = 1)]_vars
    /\ [][pc = "repo" =>
            \/ pc' = "update_agent" /\ repo_i' = repo_i
            \/ pc' = "repo" /\ repo_i' = repo_i + 1
            \/ pc' = "sleep" /\ repo_i = Len(repositories)]_vars
    /\ [][(pc = "update_agent" /\ pc' # "update_agent") =>
            /\ inflight' = {}
            /\ \/ pc' = "repo" /\ repo_i' = repo_i + 1
               \/ pc' = "sleep" /\ repo_i = Len(repositories)]_vars
    /\ [][(inflight' # inflight /\ inflight' # {}) =>
            /\ pc = "repo"
            /\ inflight = {}
            /\ inflight' = {<<"update_agent", repositories[repo_i]>>}]_vars

\* C16 witness: in a later cycle the update agent is dispatched again for
\* a repository whose previous dispatch failed.
DispatchedAgainAfterFailure ==
    /\ ev.op = "drift"
    /\ pc = "update_agent"
    /\ inflight = {<<"update_agent", ev.who>>}
    /\ dispatched[ev.who] = "failed"
    /\ loop_count >= 2

\* C17 (the claim as stated): two detections in a row, the remote branch
\* unchanged and no dispatch in between, give the same verdict; when the
\* local head and the remote revision are equal at the start, both give
\* "up to date".
DriftDetectionIdempotent ==
    (ev.op = "detect" /\ ev.run = 2 /\ ~ev.escalated
       /\ ev.first \in {"behind", "up_to_date"}
       /\ ev.verdict \in {"behind", "up_to_date"}) =>
        /\ ev.verdict = ev.first
        /\ (ev.head = ev.upstream /\ ev.tracked = ev.upstream) =>
              ev.verdict = "up_to_date"

\* the service loop is done with the service at svc_i and moves on: to the
\* next service, or after the last one to the repositories
MovesOn ==
    \/ pc' = "svc" /\ svc_i' = svc_i + 1 /\ svc_i < Len(services)
    \/ pc' = "repos" /\ svc_i = Len(services)

\* C18: a tick handles the services one after the other, each one's probe,
\* restart or escalation and cooldown done before the next one's probe;
\* the repositories come after the last service and only when the interval
\* has elapsed, their checks one after the other; the sleep of the check
\* interval comes last and the next tick begins with the first service.
TickOrdered ==
    /\ [][pc = "svc" =>
            \/ pc' \in {"restart", "agent"} /\ svc_i' = svc_i
            \/ MovesOn /\ inflight' = {}]_vars
    /\ [][pc = "agent" => pc' \in {"agent", "cooldown"} /\ svc_i' = svc_i]_vars
    /\ [][(pc \in {"restart", "cooldown"}) => (MovesOn /\ inflight' = {})]_vars
    /\ [][ev'.op = "probe" =>
            /\ pc = "svc"
            /\ ev'.who = services[svc_i]
            /\ inflight = {}]_vars
    /\ [][(pc' = "repos" /\ pc # "repos") =>
            \/ services = <<>> /\ pc \in {"start", "sleep"}
            \/ pc \in {"svc", "restart", "cooldown"} /\ svc_i = Len(services)]_vars
    /\ [][pc = "repos" =>
            IF repositories # <<>>
               /\ now - last_update_check >= update_check_interval
            THEN pc' = "repo" /\ repo_i' = 1
            ELSE pc' = "sleep"]_vars
    /\ [][(pc' \in {"repo", "update_agent"} \/ ev'.op = "drift") =>
            pc \in {"repos", "repo", "update_agent"}]_vars
    /\ [][(pc' = "sleep") => (pc \in {"repos", "repo", "update_agent"})]_vars
    /\ [][pc = "sleep" =>
            /\ now' = now + CheckInterval
            /\ loop_count' = loop_count + 1
            /\ svc_i' = 1
            /\ pc' = IF services # <<>> THEN "svc" ELSE "repos"]_vars

\* C18 witness: in the first tick of two services, one of which took a
\* restart or an escalation with its cooldown, the check cycle has just
\* begun, after the last service.
CycleBeganAfterServices ==
    /\ Len(services) = 2
    /\ loop_count = 0
    /\ now > StartTime
    /\ ev.op = "decide"
    /\ pc = "repo"

\* C19: a failed probe adds exactly 1 to the service's counter and the
\* counter grows in no other step; every other step leaves a counter as it
\* is or resets it to 0; after the failed probe the local restart is taken
\* exactly when the incremented counter is at most max_simple_restarts and
\* the escalation exactly when it is above.
CounterStepsByOne ==
    /\ [](ev.op = "probe" =>
            IF ev.ok
            THEN /\ restart_counts[ev.who] \in {ev.before, 0}
                 /\ pc \notin {"restart", "agent"}
            ELSE /\ restart_counts[ev.who] = ev.before + 1
                 /\ (ev.verdict \in {"restart", "no_restart_method"}) <=>
                       (restart_counts[ev.who] <= N)
                 /\ (ev.verdict = "escalate") <=> (restart_counts[ev.who] > N)
                 /\ (pc = "agent") <=> (restart_counts[ev.who] > N)
                 /\ (pc = "restart") => (restart_counts[ev.who] <= N))
    /\ [][\A s \in Range(services) :
            /\ restart_counts'[s] \in
                  {restart_counts[s], restart_counts[s] + 1, 0}
            /\ restart_counts'[s] > restart_counts[s] =>
                  /\ pc = "svc"
                  /\ s = services[svc_i]
                  /\ ev'.op = "probe"
                  /\ ~ev'.ok]_vars
    /\ [][(pc \in {"restart", "agent", "cooldown"}) =>
            \A s \in Range(services) :
                restart_counts'[s] # restart_counts[s] =>
                    (s = services[svc_i] /\ restart_counts'[s] = 0)]_vars

\* C19 witness: with max_simple_restarts at least 1, a failed probe took
\* the counter from max_simple_restarts to one more, and the escalation
\* was taken.
CounterCrossedThreshold ==
    /\ N >= 1
    /\ ev.op = "probe"
    /\ ~ev.ok
    /\ ev.before = N
    /\ restart_counts[ev.who] = N + 1
    /\ ev.verdict = "escalate"
    /\ pc = "agent"

\* C20 (the claim as stated): a drift check in which something failed (the
\* path is missing, the fetch failed or timed out, a revision could not be
\* read) dispatches no update agent for the repository.
CheckFailureDispatchesNothing ==
    (ev.op = "drift"
       /\ (\/ ev.verdict = "skipped"
           \/ ev.fetch \in {"fail", "raise"}
           \/ ev.local = ""
           \/ ev.remote = "")) =>
        (pc # "update_agent" /\ inflight = {})

\* C22 (the claim as stated): the update agent is dispatched by a drift
\* check only when the check read both revisions and they differ.
DispatchOnlyOnRevisionsRead ==
    (ev.op = "drift" /\ pc = "update_agent") =>
        /\ ev.local \in Revs
        /\ ev.remote \in Revs
        /\ ev.local # ev.remote

\* C23: the counter of every service is between 0 and max_simple_restarts
\* + 1 in every state, and at most max_simple_restarts while the loop
\* sleeps between two ticks; with max_simple_restarts = 0 a failed probe
\* escalates and no local restart is ever begun.
CounterWithinThreshold ==
    /\ \A s \in Range(services) :
          /\ restart_counts[s] \in 0..(N + 1)
          /\ pc = "sleep" => restart_counts[s] <= N
    /\ N = 0 =>
          /\ pc # "restart"
          /\ ev.op # "restart_return"
          /\ (ev.op = "probe" /\ ~ev.ok) =>
                (ev.verdict = "escalate" /\ pc = "agent")

\* C23 witness: with max_simple_restarts = 0 the first probe of the run
\* failed: the counter is 1 and the agent is dispatched.
FirstFailureEscalates ==
    /\ N = 0
    /\ loop_count = 0
    /\ ev.op = "probe"
    /\ ~ev.ok
    /\ ev.before = 0
    /\ restart_counts[ev.who] = 1
    /\ pc = "agent"

\* C24: while the loop handles one service (probe, local restart,
\* escalation, cooldown) the counters of the other services and the
\* timestamp of the check cycles do not change; while it is in the
\* repository part of a tick (decision, drift checks, update dispatches)
\* no counter changes and no cooldown begins.
ServiceHandlingFramed ==
    /\ [][(pc \in {"svc", "restart", "agent", "cooldown"}) =>
            /\ \A s \in Range(services) \ {services[svc_i]} :
                  restart_counts'[s] = restart_counts[s]
            /\ last_update_check' = last_update_check]_vars
    /\ [][(pc \in {"repos", "repo", "update_agent"}) =>
            /\ restart_counts' = restart_counts
            /\ pc' \notin {"cooldown", "agent", "restart"}
            /\ ev'.op # "cooldown"
            /\ now' = now]_vars

\* C24 witness: the cooldown after the escalation of the second service has
\* ended while the counter of the first one is above 0, with a repository
\* configured.
OtherCounterKeptOverEscalation ==
    /\ ev.op = "cooldown"
    /\ ev.who = "db"
    /\ restart_counts["web"] > 0
    /\ repositories # <<>>

\* the probe of service s has just returned
Probed(s) == ev.op = "probe" /\ ev.who = s

\* C21: with a service configured and every step returning, the loop never
\* ends: it sleeps between ticks again and again, every configured service
\* is probed again after every sleep and after the cooldown of its own
\* escalation, and a service whose probes and local restarts all fail is
\* escalated again and again, each time on the failed probe number
\* max_simple_restarts + 1 since the last escalation.
SupervisorNeverStops ==
    /\ [](pc \notin {"done", "crashed"})
    /\ []<>(ev.op = "sleep")
    /\ \A s \in {"web", "db"} :
          (s \in Range(services)) =>
              /\ (ev.op = "sleep") ~> Probed(s)
              /\ (ev.op = "cooldown" /\ ev.who = s) ~> Probed(s)
              /\ [](Probed(s) /\ ~ev.ok =>
                      ((ev.verdict = "escalate") <=> (streak[s] = N + 1)))
              /\ [](ev.who = s /\ ev.op \in {"probe", "restart_return"}
                        => ~ev.ok)
                    => []<>(ev.op = "agent_return" /\ ev.who = s)

\* C21 witness: beyond the first MaxTicks ticks a service has failed
\* max_simple_restarts + 1 ticks in a row and is escalated.
EscalatedAgainLater ==
    /\ loop_count = MaxTicks
    /\ N >= 1
    /\ ev.op = "probe"
    /\ ev.verdict = "escalate"
    /\ streak[ev.who] = N + 1
    /\ pc = "agent"

====
